---- MODULE Spec2Model ----
(***************************************************************************)
(* Winesweeper (src/wine.py): the game logic of GameController together    *)
(* with the wine-count normalisation of Constants.                         *)
(*                                                                         *)
(* The tkinter widgets are left out except for the one piece of widget     *)
(* state the game logic writes and that stands for the game phase: the     *)
(* face shown on the start button, written by set_state.                   *)
(*                                                                         *)
(* self.revealed and self.flagged are Python lists that the program only   *)
(* ever tests for membership, appends to, removes one element from and     *)
(* iterates over to compute a sum.  Their order is never read, so they are *)
(* modelled as bags (multisets): duplicates stay visible, order does not.  *)
(***************************************************************************)
EXTENDS Integers, Sequences, FiniteSets, Bags, TLC

(* Bounds of the model *)
MaxRows == 2    \* boards of at most this many rows,
MaxCols == 3    \* this many columns
MaxCells == 6   \* and this many cells
MaxWines == 3   \* requested wine counts 0..MaxWines

MaxArgDim == 3    \* script parameters rows, cols in -MaxArgDim..MaxArgDim
MaxArgWines == 5  \* script parameter wines in -1..MaxArgWines

(* GameController.STATE_* *)
STATE_PLAYING == 0
STATE_WIN == 1
STATE_LOSS == 2

VARIABLES
  rows,       \* GameController.rows
  cols,       \* GameController.cols
  wines,      \* GameController.wines
  winefield,  \* GameController.winefield, winefield[y][x], 0-based
  revealed,   \* GameController.revealed, a bag
  flagged,    \* GameController.flagged, a bag
  state,      \* the state last handed to set_state (face of the start button)
  filled,     \* local variable `filled` of generate_game
  pc,         \* "placing" inside the while loop of generate_game, else "idle"
  last        \* history: <<handler that ran last, the case it met>>

vars == <<rows, cols, wines, winefield, revealed, flagged, state, filled, pc, last>>

(* The fields of the GameController the helper methods read *)
controller ==
  [rows |-> rows, cols |-> cols, wines |-> wines, winefield |-> winefield]

Min(a, b) == IF a < b THEN a ELSE b
Max(a, b) == IF a > b THEN a ELSE b

(* __normalize_wine_count without the max(1, ...) *)
normalize_wine_count_unfloored(w, r, c) == Min(w, r * c)

(* Constants.__normalize_wine_count *)
normalize_wine_count(w, r, c) == Max(1, Min(w, r * c))

(* The element generate_game appends to self.revealed once per row: the    *)
(* list [False, ..., False].  A Python list never equals an (x, y) tuple;  *)
(* it is encoded as a pair that is no position of any grid.                *)
RowOfFalse == <<-1, -1>>

One(e) == SetToBag({e})

(* range(rows) x range(cols) in the order of the nested for loops          *)
AllCells(self) ==
  [i \in 1..(self.rows * self.cols) |->
     <<(i - 1) % self.cols, (i - 1) \div self.cols>>]

Cells(self) == {<<x, y>> : x \in 0..(self.cols - 1), y \in 0..(self.rows - 1)}

(* winefield as generate_game leaves it before the placement loop *)
EmptyBoard(r, c) == [y \in 0..(r - 1) |-> [x \in 0..(c - 1) |-> 0]]

(* list.remove: drops the first occurrence of e *)
RECURSIVE ListRemove(_, _)
ListRemove(s, e) ==
  IF s = <<>> THEN <<>>
  ELSE IF Head(s) = e THEN Tail(s)
  ELSE <<Head(s)>> \o ListRemove(Tail(s), e)

(* _get_neighbors with the column range clipped by the row count *)
_get_neighbors_rows_for_cols(self, x, y) ==
  LET xa == Max(0, x - 1)
      xb == Min(x + 1, self.rows - 1)
      ya == Max(0, y - 1)
      yb == Min(y + 1, self.rows - 1)
      w  == xb - xa + 1
      h  == yb - ya + 1
      neighbors ==
        [i \in 1..(w * h) |-> <<xa + ((i - 1) % w), ya + ((i - 1) \div w)>>]
  IN  ListRemove(neighbors, <<x, y>>)

(* GameController._get_neighbors *)
_get_neighbors(self, x, y) ==
  LET xa == Max(0, x - 1)
      xb == Min(x + 1, self.cols - 1)
      ya == Max(0, y - 1)
      yb == Min(y + 1, self.rows - 1)
      w  == xb - xa + 1
      h  == yb - ya + 1
      neighbors ==
        [i \in 1..(w * h) |-> <<xa + ((i - 1) % w), ya + ((i - 1) \div w)>>]
  IN  ListRemove(neighbors, <<x, y>>)

(* _reveal without the membership test: appends in every case *)
_reveal_always(rev, x, y) == rev (+) One(<<x, y>>)

(* GameController._reveal, on the revealed list rev *)
_reveal(rev, x, y) ==
  IF ~ BagIn(<<x, y>>, rev) THEN rev (+) One(<<x, y>>) ELSE rev

(* for (x, y) in s: self._reveal(x, y) *)
RECURSIVE RevealEach(_, _)
RevealEach(rev, s) ==
  IF s = <<>> THEN rev
  ELSE RevealEach(_reveal(rev, Head(s)[1], Head(s)[2]), Tail(s))

(* _reveal_all_cells with the inner range one short: the last cell of the  *)
(* board is never visited                                                  *)
_reveal_all_cells_short(self, rev) ==
  RevealEach(rev, SubSeq(AllCells(self), 1, Len(AllCells(self)) - 1))

(* _reveal_all_cells that passes over the flagged cells *)
_reveal_all_cells_unflagged(self, rev) ==
  RevealEach(rev, SelectSeq(AllCells(self), LAMBDA c : ~ BagIn(c, flagged)))

(* GameController._reveal_all_cells *)
_reveal_all_cells(self, rev) == RevealEach(rev, AllCells(self))

(* CrawlInfo.is_visited / CrawlInfo.add_empty on the list _empties *)
is_visited(info, x, y) == \E i \in 1..Len(info) : info[i] = <<x, y>>
add_empty(info, x, y) == Append(info, <<x, y>>)

RECURSIVE CrawlEach(_, _, _)
(* __crawl_blank_field with the value test ahead of add_empty: the cells   *)
(* of positive value that border the blank region are not recorded         *)
crawl_blank_field_noborder(self, info, x, y) ==
  IF is_visited(info, x, y) \/ self.winefield[y][x] > 0 THEN info
  ELSE CrawlEach(self, add_empty(info, x, y), _get_neighbors(self, x, y))

(* __crawl_blank_field with add_empty ahead of the visited test: a         *)
(* position reached again is recorded again before the call returns        *)
crawl_blank_field_add_first(self, info, x, y) ==
  IF is_visited(info, x, y) \/ self.winefield[y][x] # 0
  THEN add_empty(info, x, y)
  ELSE CrawlEach(self, add_empty(info, x, y), _get_neighbors(self, x, y))

(* __crawl_blank_field that stops at a wine only: it walks on through the  *)
(* cells of positive value                                                 *)
crawl_blank_field_through_numbers(self, info, x, y) ==
  IF is_visited(info, x, y) THEN info
  ELSE LET info1 == add_empty(info, x, y)
       IN  IF self.winefield[y][x] < 0 THEN info1
           ELSE CrawlEach(self, info1, _get_neighbors(self, x, y))

(* GameController.__crawl_blank_field; returns info._empties *)
RECURSIVE crawl_blank_field(_, _, _, _)
crawl_blank_field(self, info, x, y) ==
  IF is_visited(info, x, y) THEN info
  ELSE LET info1 == add_empty(info, x, y)
       IN  IF self.winefield[y][x] # 0 THEN info1
           ELSE CrawlEach(self, info1, _get_neighbors(self, x, y))

(* for (nx, ny) in neighbors: self.__crawl_blank_field(info, nx, ny) *)
(* (the test on Len is always true: it makes TLC finish one call before it *)
(* starts on the next neighbour, as the Python loop does)                  *)
CrawlEach(self, info, ns) ==
  IF ns = <<>> THEN info
  ELSE LET next == crawl_blank_field(self, info, Head(ns)[1], Head(ns)[2])
       IN  IF Len(next) >= 0 THEN CrawlEach(self, next, Tail(ns)) ELSE next

(* GameController.__crawl_blank_field again, counting its invocations:     *)
(* acc.info is info._empties, acc.calls the number of calls made so far    *)
RECURSIVE crawl_calls(_, _, _, _)
RECURSIVE CrawlCallsEach(_, _, _)
crawl_calls(self, acc, x, y) ==
  LET entered == [acc EXCEPT !.calls = @ + 1]
  IN  IF is_visited(acc.info, x, y) THEN entered
      ELSE LET added == [entered EXCEPT !.info = add_empty(@, x, y)]
           IN  IF self.winefield[y][x] # 0 THEN added
               ELSE CrawlCallsEach(self, added, _get_neighbors(self, x, y))

CrawlCallsEach(self, acc, ns) ==
  IF ns = <<>> THEN acc
  ELSE LET next == crawl_calls(self, acc, Head(ns)[1], Head(ns)[2])
       IN  IF next.calls >= 0 THEN CrawlCallsEach(self, next, Tail(ns)) ELSE next

(* GameController._reveal_empty_field *)
_reveal_empty_field(self, rev, x, y) ==
  RevealEach(rev, crawl_blank_field(self, <<>>, x, y))

(* the loop of check_win: total of the board values of the flagged cells *)
RECURSIVE FlagTotal(_, _, _)
FlagTotal(self, fl, S) ==
  IF S = {} THEN 0
  ELSE LET p == CHOOSE q \in S : TRUE
       IN  CopiesIn(p, fl) * self.winefield[p[2]][p[1]]
             + FlagTotal(self, fl, S \ {p})

(* GameController.check_win: TRUE iff it calls set_state(STATE_WIN) *)
check_win(self, fl) ==
  LET target == -1 * self.wines
      total  == FlagTotal(self, fl, BagToSet(fl))
  IN  total = target

(* the neighbour loop without `if val != -1`: a neighbouring wine is       *)
(* bumped from -1 to 0                                                     *)
RECURSIVE BumpEach_unguarded(_, _)
BumpEach_unguarded(wf, ns) ==
  IF ns = <<>> THEN wf
  ELSE BumpEach_unguarded(
         [wf EXCEPT ![Head(ns)[2]][Head(ns)[1]] = wf[Head(ns)[2]][Head(ns)[1]] + 1],
         Tail(ns))

(* for (xr, yr) in neighbors: bump the weight of the cells that hold no wine *)
RECURSIVE BumpEach(_, _)
BumpEach(wf, ns) ==
  IF ns = <<>> THEN wf
  ELSE LET xr == Head(ns)[1]
           yr == Head(ns)[2]
           val == wf[yr][xr]
       IN  BumpEach(IF val # -1 THEN [wf EXCEPT ![yr][xr] = val + 1] ELSE wf,
                    Tail(ns))

(* The body of `if self.winefield[y][x] != -1` in generate_game: the board *)
(* after a wine is put on the free cell (x, y)                             *)
PutWine(self, x, y) ==
  BumpEach([self.winefield EXCEPT ![y][x] = -1], _get_neighbors(self, x, y))

PhaseName(s) ==
  IF s = STATE_PLAYING THEN "playing" ELSE IF s = STATE_WIN THEN "win" ELSE "loss"

WasRevealed(x, y) == IF BagIn(<<x, y>>, revealed) THEN "revealed" ELSE "hidden"

(* The state inside the constructor, when its call of generate_game enters *)
(* the placement loop; the script parameters are already normalised.       *)
Init ==
  /\ rows \in 1..MaxRows
  /\ cols \in 1..MaxCols
  /\ rows * cols <= MaxCells
  /\ \E w \in 0..MaxWines : wines = normalize_wine_count(w, rows, cols)
  /\ winefield = EmptyBoard(rows, cols)
  /\ revealed = [e \in {RowOfFalse} |-> rows]
  /\ flagged = EmptyBag
  /\ state = STATE_PLAYING
  /\ filled = 0
  /\ pc = "placing"
  /\ last = <<"generate_game", "new">>

(* generate_game without `self.flagged = []` *)
generate_game_keeps_flags ==
  /\ pc = "idle"
  /\ state' = STATE_PLAYING
  /\ winefield' = EmptyBoard(rows, cols)
  /\ revealed' = [e \in {RowOfFalse} |-> rows]
  /\ filled' = 0
  /\ pc' = IF 0 < wines THEN "placing" ELSE "idle"
  /\ last' = <<"generate_game", PhaseName(state)>>
  /\ UNCHANGED <<rows, cols, wines, flagged>>

(* GameController.generate_game up to the while loop (lines 212-229) *)
generate_game ==
  /\ pc = "idle"
  /\ state' = STATE_PLAYING
  /\ winefield' = EmptyBoard(rows, cols)
  /\ revealed' = [e \in {RowOfFalse} |-> rows]
  /\ flagged' = EmptyBag
  /\ filled' = 0
  /\ pc' = IF 0 < wines THEN "placing" ELSE "idle"
  /\ last' = <<"generate_game", PhaseName(state)>>
  /\ UNCHANGED <<rows, cols, wines>>

(* the loop body with `filled = filled + 1` outside the `if`: a draw that  *)
(* hits a wine is counted too                                              *)
place_wine_counting_hits(x, y) ==
  /\ pc = "placing"
  /\ filled < wines
  /\ IF winefield[y][x] # -1
     THEN /\ winefield' = PutWine(controller, x, y)
          /\ last' = <<"place_wine", "free">>
     ELSE /\ UNCHANGED winefield
          /\ last' = <<"place_wine", "taken">>
  /\ filled' = filled + 1
  /\ pc' = IF filled' < wines THEN "placing" ELSE "idle"
  /\ UNCHANGED <<rows, cols, wines, revealed, flagged, state>>

(* One iteration of the while loop of generate_game (lines 230-242) with   *)
(* the draw (x, y); the handler returns when the loop condition fails.     *)
place_wine(x, y) ==
  /\ pc = "placing"
  /\ filled < wines
  /\ IF winefield[y][x] # -1
     THEN /\ winefield' = PutWine(controller, x, y)
          /\ filled' = filled + 1
          /\ last' = <<"place_wine", "free">>
     ELSE /\ UNCHANGED <<winefield, filled>>
          /\ last' = <<"place_wine", "taken">>
  /\ pc' = IF filled' < wines THEN "placing" ELSE "idle"
  /\ UNCHANGED <<rows, cols, wines, revealed, flagged, state>>

(* do_left_click whose branch for a numbered cell also reveals the cells   *)
(* around it                                                               *)
do_left_click_cascading(x, y) ==
  /\ pc = "idle"
  /\ LET boardscore == winefield[y][x]
     IN  IF boardscore = -1
         THEN /\ state' = STATE_LOSS
              /\ revealed' = _reveal_all_cells(controller, revealed)
         ELSE IF boardscore > 0
         THEN /\ revealed' = RevealEach(_reveal(revealed, x, y),
                                        _get_neighbors(controller, x, y))
              /\ UNCHANGED state
         ELSE /\ revealed' = _reveal_empty_field(controller, revealed, x, y)
              /\ UNCHANGED state
  /\ last' = <<"do_left_click", WasRevealed(x, y)>>
  /\ UNCHANGED <<rows, cols, wines, winefield, flagged, filled, pc>>

(* GameController.do_left_click *)
do_left_click(x, y) ==
  /\ pc = "idle"
  /\ LET boardscore == winefield[y][x]
     IN  IF boardscore = -1
         THEN /\ state' = STATE_LOSS
              /\ revealed' = _reveal_all_cells(controller, revealed)
         ELSE IF boardscore > 0
         THEN /\ revealed' = _reveal(revealed, x, y)
              /\ UNCHANGED state
         ELSE /\ revealed' = _reveal_empty_field(controller, revealed, x, y)
              /\ UNCHANGED state
  /\ last' = <<"do_left_click", WasRevealed(x, y)>>
  /\ UNCHANGED <<rows, cols, wines, winefield, flagged, filled, pc>>

(* do_right_click without `if not xy in self.revealed` *)
do_right_click_unguarded(x, y) ==
  /\ pc = "idle"
  /\ LET xy == <<x, y>>
     IN  IF BagIn(xy, flagged)
         THEN /\ flagged' = flagged (-) One(xy)
              /\ UNCHANGED <<state, revealed>>
         ELSE /\ flagged' = flagged (+) One(xy)
              /\ IF check_win(controller, flagged')
                 THEN /\ state' = STATE_WIN
                      /\ revealed' = _reveal_all_cells(controller, revealed)
                 ELSE UNCHANGED <<state, revealed>>
  /\ last' = <<"do_right_click", WasRevealed(x, y)>>
  /\ UNCHANGED <<rows, cols, wines, winefield, filled, pc>>

(* do_right_click whose winning branch shows the win face without the     *)
(* call of _reveal_all_cells                                               *)
do_right_click_win_unrevealed(x, y) ==
  /\ pc = "idle"
  /\ LET xy == <<x, y>>
     IN  IF ~ BagIn(xy, revealed)
         THEN IF BagIn(xy, flagged)
              THEN /\ flagged' = flagged (-) One(xy)
                   /\ UNCHANGED <<state, revealed>>
              ELSE /\ flagged' = flagged (+) One(xy)
                   /\ state' = IF check_win(controller, flagged')
                               THEN STATE_WIN ELSE state
                   /\ UNCHANGED revealed
         ELSE UNCHANGED <<flagged, state, revealed>>
  /\ last' = <<"do_right_click", WasRevealed(x, y)>>
  /\ UNCHANGED <<rows, cols, wines, winefield, filled, pc>>

(* GameController.do_right_click *)
do_right_click(x, y) ==
  /\ pc = "idle"
  /\ LET xy == <<x, y>>
     IN  IF ~ BagIn(xy, revealed)
         THEN IF BagIn(xy, flagged)
              THEN /\ flagged' = flagged (-) One(xy)
                   /\ UNCHANGED <<state, revealed>>
              ELSE /\ flagged' = flagged (+) One(xy)
                   /\ IF check_win(controller, flagged')
                      THEN /\ state' = STATE_WIN
                           /\ revealed' = _reveal_all_cells(controller, revealed)
                      ELSE UNCHANGED <<state, revealed>>
         ELSE UNCHANGED <<flagged, state, revealed>>
  /\ last' = <<"do_right_click", WasRevealed(x, y)>>
  /\ UNCHANGED <<rows, cols, wines, winefield, filled, pc>>

Next ==
  \/ generate_game
  \/ \E x \in 0..(cols - 1), y \in 0..(rows - 1) : place_wine(x, y)
  \/ \E x \in 0..(cols - 1), y \in 0..(rows - 1) : do_left_click(x, y)
  \/ \E x \in 0..(cols - 1), y \in 0..(rows - 1) : do_right_click(x, y)

Spec == Init /\ [][Next]_vars

(***************************************************************************)
(* The start of the script (lines 340-350): the script parameters are      *)
(* parsed and normalised, then the GameController is constructed and its   *)
(* generate_game places the wines.  Before the construction rows, cols and *)
(* wines stand for Constants._script_params, which __init__ copies.        *)
(***************************************************************************)

(* The state inside parse_script_parameters after its loop has stored the  *)
(* three integers given on the command line (lines 52-61)                  *)
InitStartup ==
  /\ rows \in (-MaxArgDim)..MaxArgDim
  /\ cols \in (-MaxArgDim)..MaxArgDim
  /\ wines \in (-1)..MaxArgWines
  /\ winefield = <<>>
  /\ revealed = EmptyBag
  /\ flagged = EmptyBag
  /\ state = STATE_PLAYING
  /\ filled = 0
  /\ pc = "parsed"
  /\ last = <<"parse_script_parameters", "parsed">>

(* Constants.parse_script_parameters, its last statement (line 62) *)
parse_script_parameters ==
  /\ pc = "parsed"
  /\ wines' = normalize_wine_count(wines, rows, cols)
  /\ pc' = "configured"
  /\ last' = <<"parse_script_parameters", IF wines' = wines THEN "kept" ELSE "clamped">>
  /\ UNCHANGED <<rows, cols, winefield, revealed, flagged, state, filled>>

(* GameController.__init__ with its call of generate_game up to the        *)
(* placement loop (lines 160-229); range(rows) is empty for rows <= 0      *)
GameController_init ==
  /\ pc = "configured"
  /\ state' = STATE_PLAYING
  /\ winefield' = EmptyBoard(rows, cols)
  /\ revealed' = IF rows > 0 THEN [e \in {RowOfFalse} |-> rows] ELSE EmptyBag
  /\ flagged' = EmptyBag
  /\ filled' = 0
  /\ pc' = IF 0 < wines THEN "placing" ELSE "idle"
  /\ last' = <<"generate_game", "new">>
  /\ UNCHANGED <<rows, cols, wines>>

(* The draw of the placement loop (lines 231-232) on a board without       *)
(* columns or rows: randint(0, -1) raises ValueError, which nothing        *)
(* catches                                                                 *)
randint_raises ==
  /\ pc = "placing"
  /\ filled < wines
  /\ cols < 1 \/ rows < 1
  /\ pc' = "crashed"
  /\ last' = <<"generate_game", "ValueError">>
  /\ UNCHANGED <<rows, cols, wines, winefield, revealed, flagged, state, filled>>

NextStartup ==
  \/ parse_script_parameters
  \/ GameController_init
  \/ \E x \in 0..(cols - 1), y \in 0..(rows - 1) : place_wine(x, y)
  \/ randint_raises

SpecStartup == InitStartup /\ [][NextStartup]_vars

(***************************************************************************)
(* The placement loop of generate_game on its own, under a fair random     *)
(* generator.  If every cell is drawn again and again while the loop runs, *)
(* then so is a cell that holds no wine yet; this consequence is all the   *)
(* specification assumes.                                                  *)
(***************************************************************************)
free_draw ==
  \E x \in 0..(cols - 1), y \in 0..(rows - 1) :
    winefield[y][x] # -1 /\ place_wine(x, y)

NextPlacement ==
  \E x \in 0..(cols - 1), y \in 0..(rows - 1) : place_wine(x, y)

FairDraws == WF_vars(free_draw)

SpecPlacement == Init /\ [][NextPlacement]_vars /\ FairDraws

(***************************************************************************)
(* Vocabulary of the properties                                            *)
(***************************************************************************)
ToSet(s) == {s[i] : i \in DOMAIN s}
ValueAt(self, c) == self.winefield[c[2]][c[1]]
Board == Cells(controller)
Wines == {c \in Board : ValueAt(controller, c) = -1}
RevealedIn(rev) == {c \in Board : BagIn(c, rev)}
FlaggedCells == BagToSet(flagged)
WineNeighbours(self, c) ==
  LET ns == _get_neighbors(self, c[1], c[2])
  IN  Cardinality({i \in DOMAIN ns : ValueAt(self, ns[i]) = -1})

(* The smallest set that holds S and, for each of its cells of value 0,    *)
(* all neighbours of that cell                                             *)
RECURSIVE Grow(_, _)
Grow(self, S) ==
  LET T == S \cup UNION {ToSet(_get_neighbors(self, c[1], c[2])) :
                           c \in {d \in S : ValueAt(self, d) = 0}}
  IN  IF T = S THEN S ELSE Grow(self, T)

FloodRegion(self, x, y) == Grow(self, {<<x, y>>})

(* The 3x3 board with its single wine at (0, 0) *)
Board3x3 ==
  LET blank == [rows |-> 3, cols |-> 3, wines |-> 1, winefield |-> EmptyBoard(3, 3)]
  IN  [blank EXCEPT !.winefield = PutWine(blank, 0, 0)]

(***************************************************************************)
(* C1: when generate_game has returned, exactly `wines` cells of winefield *)
(* hold -1 and every other cell holds the number of the neighbours that    *)
(* _get_neighbors lists for it that hold -1, whatever cells the placement  *)
(* loop drew.                                                              *)
(***************************************************************************)
C1_GeneratedBoard ==
  pc = "idle" =>
    /\ Cardinality(Wines) = wines
    /\ \A c \in Board \ Wines :
         ValueAt(controller, c) = WineNeighbours(controller, c)

C1_Witness ==
  /\ pc = "idle"
  /\ last = <<"place_wine", "free">>
  /\ wines = 3
  /\ \E c \in Board : ValueAt(controller, c) = 3
  /\ \E c \in Board : ValueAt(controller, c) = 1

(***************************************************************************)
(* C2: while playing, a left click on a cell that holds a wine, flagged or *)
(* not, sets the state to STATE_LOSS and leaves every cell of the board in *)
(* the revealed list.                                                      *)
(***************************************************************************)
C2_WineClickLoses ==
  [][\A x \in 0..(cols - 1), y \in 0..(rows - 1) :
       (state = STATE_PLAYING /\ winefield[y][x] = -1 /\ do_left_click(x, y))
         => /\ state' = STATE_LOSS
            /\ \A c \in Board : BagIn(c, revealed')]_vars

C2_Witness ==
  /\ state = STATE_LOSS
  /\ last = <<"do_left_click", "hidden">>
  /\ \A c \in Board : BagIn(c, revealed)
  /\ \E c \in Wines : c \in FlaggedCells
  /\ \E c \in Wines : c \notin FlaggedCells

(***************************************************************************)
(* C3: on a board where nothing was revealed, whenever right clicks have   *)
(* left the flagged list equal to the set of wine cells, the state is      *)
(* STATE_WIN (a win reveals the whole board, so no state with the flags    *)
(* exactly on the wines and nothing revealed may exist).                   *)
(***************************************************************************)
C3_FlagsOnWinesWin ==
  (/\ pc = "idle"
   /\ RevealedIn(revealed) = {}
   /\ FlaggedCells = Wines
   /\ \A c \in Wines : CopiesIn(c, flagged) = 1)
    => state = STATE_WIN

(***************************************************************************)
(* C4: the state is STATE_WIN only with the flagged list exactly the wine  *)
(* cells: no flag on a cell without wine, and `wines` flags.               *)
(***************************************************************************)
C4_WinOnlyOnWines ==
  state = STATE_WIN =>
    /\ FlaggedCells = Wines
    /\ BagCardinality(flagged) = wines

(***************************************************************************)
(* C5: once the state is STATE_WIN or STATE_LOSS, a left click on any cell *)
(* leaves the state, the revealed list and the flagged list unchanged.     *)
(***************************************************************************)
C5_TerminalReveal ==
  [][\A x \in 0..(cols - 1), y \in 0..(rows - 1) :
       (state \in {STATE_WIN, STATE_LOSS} /\ do_left_click(x, y))
         => UNCHANGED <<state, revealed, flagged>>]_vars

(***************************************************************************)
(* C6: a right click while the state is not STATE_PLAYING, or on a cell    *)
(* that is already revealed, changes neither the flagged list nor the      *)
(* revealed list nor the state (so no win is declared by it).              *)
(***************************************************************************)
C6_RightClickNoOp ==
  [][\A x \in 0..(cols - 1), y \in 0..(rows - 1) :
       (/\ state # STATE_PLAYING \/ BagIn(<<x, y>>, revealed)
        /\ do_right_click(x, y))
         => UNCHANGED <<flagged, revealed, state>>]_vars

(* a right click met a revealed cell during play, with the flags exactly   *)
(* on the wines: a win check at this point would have declared a win       *)
C6_Witness ==
  /\ state = STATE_PLAYING
  /\ last = <<"do_right_click", "revealed">>
  /\ FlaggedCells = Wines

(***************************************************************************)
(* C7: while playing, no cell is both in the revealed list and in the      *)
(* flagged list.                                                           *)
(***************************************************************************)
C7_NoRevealedFlag ==
  state = STATE_PLAYING => RevealedIn(revealed) \cap FlaggedCells = {}

(***************************************************************************)
(* C8: a left click on a cell of value 0 reveals exactly the flood region  *)
(* of the cell: every cell of the region ends revealed, no other cell      *)
(* changes, the region lies inside the grid; on the 3x3 board with its one *)
(* wine at (0, 0) a click on (2, 2) reveals the 8 other cells.             *)
(***************************************************************************)
C8_FloodFill ==
  /\ LET shown == _reveal_empty_field(Board3x3, EmptyBag, 2, 2)
     IN  /\ ValueAt(Board3x3, <<2, 2>>) = 0
         /\ BagToSet(shown) = Cells(Board3x3) \ {<<0, 0>>}
         /\ BagCardinality(shown) = 8
  /\ [][\A x \in 0..(cols - 1), y \in 0..(rows - 1) :
          (winefield[y][x] = 0 /\ do_left_click(x, y))
            => LET S == FloodRegion(controller, x, y)
               IN  /\ S \subseteq Board
                   /\ RevealedIn(revealed') = RevealedIn(revealed) \cup S
                   /\ BagToSet(revealed') \ Board = BagToSet(revealed) \ Board]_vars

(* a flood fill during play that revealed a region of at least four cells  *)
(* and stopped at its border: a cell without wine is still hidden          *)
C8_Witness ==
  /\ state = STATE_PLAYING
  /\ last = <<"do_left_click", "hidden">>
  /\ \E c \in RevealedIn(revealed) :
       /\ ValueAt(controller, c) = 0
       /\ RevealedIn(revealed) = FloodRegion(controller, c[1], c[2])
  /\ Cardinality(RevealedIn(revealed)) >= 4
  /\ Board \ (Wines \cup RevealedIn(revealed)) # {}

(***************************************************************************)
(* C9: a left click on a revealed cell that holds no wine leaves the       *)
(* revealed list, the flagged list and the state as they were, and the     *)
(* revealed list never holds a position twice.                             *)
(***************************************************************************)
C9_RevealIdempotent ==
  /\ [](\A c \in Board : CopiesIn(c, revealed) <= 1)
  /\ [][\A x \in 0..(cols - 1), y \in 0..(rows - 1) :
          (/\ winefield[y][x] # -1
           /\ BagIn(<<x, y>>, revealed)
           /\ do_left_click(x, y))
            => UNCHANGED <<revealed, flagged, state>>]_vars

(* a left click met a revealed cell during play, on a board where a cell   *)
(* of value 0 and a cell of positive value are revealed                    *)
C9_Witness ==
  /\ state = STATE_PLAYING
  /\ last = <<"do_left_click", "revealed">>
  /\ \E c \in RevealedIn(revealed) : ValueAt(controller, c) = 0
  /\ \E c \in RevealedIn(revealed) : ValueAt(controller, c) > 0

(***************************************************************************)
(* C10: generate_game can be taken in every state, whatever the phase; it  *)
(* leaves the state STATE_PLAYING, no position revealed, no cell flagged,  *)
(* the dimensions and the wine count as they were, and when it returns     *)
(* the board holds `wines` wines.                                          *)
(***************************************************************************)
C10_Reset ==
  /\ [](pc = "idle" => ENABLED generate_game)
  /\ [][generate_game
          => /\ state' = STATE_PLAYING
             /\ RevealedIn(revealed') = {}
             /\ flagged' = EmptyBag
             /\ <<rows', cols', wines'>> = <<rows, cols, wines>>]_vars
  /\ [][(pc = "placing" /\ pc' = "idle")
          => /\ state' = STATE_PLAYING
             /\ RevealedIn(revealed') = {}
             /\ flagged' = EmptyBag
             /\ Cardinality({c \in Board : winefield'[c[2]][c[1]] = -1}) = wines]_vars

(* a reset taken from STATE_WIN has just cleared the board *)
C10_Witness ==
  /\ last = <<"generate_game", "win">>
  /\ state = STATE_PLAYING
  /\ pc = "placing"
  /\ flagged = EmptyBag
(***************************************************************************)
(* C11: whenever the state is STATE_WIN or STATE_LOSS every cell of the    *)
(* board is in the revealed list; in particular the right click that wins  *)
(* leaves the whole board revealed.                                        *)
(***************************************************************************)
C11_TerminalBoardRevealed ==
  state \in {STATE_WIN, STATE_LOSS} => \A c \in Board : BagIn(c, revealed)

(* a right click on a hidden cell has just won a board of two wines that   *)
(* has cells without wine                                                  *)
C11_Witness ==
  /\ state = STATE_WIN
  /\ last = <<"do_right_click", "hidden">>
  /\ wines = 2
  /\ Board \ Wines # {}
  /\ RevealedIn(revealed) = Board
(***************************************************************************)
(* C12: for positive rows and cols and any requested wine count w, the     *)
(* count after normalisation is w when 1 <= w <= rows * cols, 1 when w is  *)
(* smaller and rows * cols when w is larger; the constructor takes it over *)
(* unchanged; 2x2 with 5 requested gives 4, and all four cells get a wine. *)
(***************************************************************************)
C12_WineCountClamped ==
  /\ [][(parse_script_parameters /\ rows >= 1 /\ cols >= 1)
          => /\ 1 <= wines' /\ wines' <= rows * cols
             /\ (1 <= wines /\ wines <= rows * cols) => wines' = wines
             /\ wines < 1 => wines' = 1
             /\ wines > rows * cols => wines' = rows * cols
             /\ (rows = 2 /\ cols = 2 /\ wines = 5) => wines' = 4]_vars
  /\ [][GameController_init => wines' = wines]_vars
  /\ []((pc = "idle" /\ rows = 2 /\ cols = 2 /\ wines = 4)
          => \A c \in Board : ValueAt(controller, c) = -1)

(* more than 4 wines were requested for a 2x2 board and the count was      *)
(* clamped to 4                                                            *)
C12_Witness ==
  /\ last = <<"parse_script_parameters", "clamped">>
  /\ rows = 2 /\ cols = 2
  /\ wines = 4

(***************************************************************************)
(* C13: generate_game is never entered with rows < 1, cols < 1 or a wine   *)
(* count outside 1..rows * cols.                                           *)
(***************************************************************************)
C13_ValidBoardOnly ==
  pc \in {"placing", "idle", "crashed"} =>
    /\ rows >= 1
    /\ cols >= 1
    /\ 1 <= wines /\ wines <= rows * cols
(***************************************************************************)
(* C14: while playing, a left click on a hidden cell of value 1..8 appends *)
(* that one position to the revealed list and changes nothing else: no     *)
(* neighbour is revealed, the flagged list and the state stay.             *)
(***************************************************************************)
C14_NumberClickRevealsOne ==
  [][\A x \in 0..(cols - 1), y \in 0..(rows - 1) :
       (/\ state = STATE_PLAYING
        /\ winefield[y][x] \in 1..8
        /\ ~ BagIn(<<x, y>>, revealed)
        /\ do_left_click(x, y))
         => /\ revealed' = revealed (+) One(<<x, y>>)
            /\ RevealedIn(revealed') = RevealedIn(revealed) \cup {<<x, y>>}
            /\ flagged' = flagged
            /\ state' = STATE_PLAYING]_vars

(* the only revealed cell has a positive value and a hidden neighbour of   *)
(* value 0, and a flag is out                                              *)
C14_Witness ==
  /\ state = STATE_PLAYING
  /\ last = <<"do_left_click", "hidden">>
  /\ flagged # EmptyBag
  /\ \E c \in Board :
       /\ RevealedIn(revealed) = {c}
       /\ ValueAt(controller, c) > 0
       /\ \E d \in ToSet(_get_neighbors(controller, c[1], c[2])) :
            ValueAt(controller, d) = 0
(***************************************************************************)
(* C15: on every board with rows, cols >= 1, _get_neighbors(x, y) lists,   *)
(* each once, exactly the positions of the board within Chebyshev distance *)
(* 1 of (x, y) other than (x, y); q is listed for p iff p is listed for q. *)
(***************************************************************************)
Abs(n) == IF n < 0 THEN -n ELSE n

Chebyshev1(self, c) ==
  {d \in Cells(self) : d # c /\ Abs(d[1] - c[1]) <= 1 /\ Abs(d[2] - c[2]) <= 1}

C15_Neighbours ==
  (rows >= 1 /\ cols >= 1) =>
    \A c \in Board :
      LET ns == _get_neighbors(controller, c[1], c[2])
      IN  /\ ToSet(ns) = Chebyshev1(controller, c)
          /\ \A i, j \in DOMAIN ns : i # j => ns[i] # ns[j]
          /\ \A d \in Board :
               d \in ToSet(ns) <=> c \in ToSet(_get_neighbors(controller, d[1], d[2]))

(* the first wine of a 3x3 board was put on the centre cell and each of    *)
(* the 8 cells around it was bumped to 1                                   *)
C15_Witness ==
  /\ rows = 3 /\ cols = 3
  /\ last = <<"place_wine", "free">>
  /\ filled = 1
  /\ ValueAt(controller, <<1, 1>>) = -1
  /\ \A c \in Board \ {<<1, 1>>} : ValueAt(controller, c) = 1
  /\ Len(_get_neighbors(controller, 1, 1)) = 8
  /\ Len(_get_neighbors(controller, 0, 0)) = 3
  /\ Len(_get_neighbors(controller, 1, 0)) = 5
(***************************************************************************)
(* C16: the crawl started on any cell of any board generate_game returns   *)
(* (and of the blank board it starts from) returns after at most           *)
(* 1 + 8 * (recorded positions) calls; it records positions of the board   *)
(* only, none of them twice, so at most rows * cols of them.               *)
(***************************************************************************)
C16_CrawlBounded ==
  (/\ pc = "idle" \/ (pc = "placing" /\ filled = 0)
   /\ rows >= 1 /\ cols >= 1) =>
    \A c \in Board :
      LET empties == crawl_blank_field(controller, <<>>, c[1], c[2])
          run == crawl_calls(controller, [info |-> <<>>, calls |-> 0], c[1], c[2])
      IN  /\ \A i, j \in DOMAIN empties : i # j => empties[i] # empties[j]
          /\ ToSet(empties) \subseteq Board
          /\ Len(empties) <= rows * cols
          /\ run.info = empties
          /\ run.calls <= 1 + 8 * Len(empties)

(* the blank 3x3 board: the crawl from the centre records all 9 cells and  *)
(* meets recorded cells again on most of its calls                         *)
C16_Witness ==
  /\ rows = 3 /\ cols = 3
  /\ pc = "placing"
  /\ filled = 0
  /\ Len(crawl_blank_field(controller, <<>>, 1, 1)) = 9
  /\ crawl_calls(controller, [info |-> <<>>, calls |-> 0], 1, 1).calls > 9
(***************************************************************************)
(* C17: under fair draws the placement loop finishes on every board with   *)
(* 1 <= wines <= rows * cols; a draw that hits a wine changes neither the  *)
(* board nor the counter; the loop runs while fewer than `wines` cells     *)
(* hold a wine and has ended when exactly `wines` cells do.                *)
(***************************************************************************)
C17_PlacementEnds ==
  /\ <>(pc = "idle")
  /\ [](/\ filled = Cardinality(Wines)
        /\ pc = "placing" => Cardinality(Wines) < wines
        /\ pc = "idle" => Cardinality(Wines) = wines)
  /\ [][\A x \in 0..(cols - 1), y \in 0..(rows - 1) :
          (winefield[y][x] = -1 /\ place_wine(x, y))
            => UNCHANGED <<winefield, filled, pc>>]_vars

(* on a board that is to be filled with wines, a draw has hit a wine while *)
(* one cell is still free                                                  *)
C17_Witness ==
  /\ wines = rows * cols
  /\ wines >= 2
  /\ last = <<"place_wine", "taken">>
  /\ pc = "placing"
  /\ filled = wines - 1
(***************************************************************************)
(* C18: while the last state set is STATE_PLAYING no cell of value -1 is   *)
(* in `revealed`; and a left click on a cell that holds no wine, be it of  *)
(* value 0 (the crawl) or of positive value (the single reveal), leaves    *)
(* the revealed wines as they were.                                        *)
(***************************************************************************)
C18_NoWineRevealedInPlay ==
  /\ [](state = STATE_PLAYING => RevealedIn(revealed) \cap Wines = {})
  /\ [][\A x \in 0..(cols - 1), y \in 0..(rows - 1) :
          (winefield[y][x] # -1 /\ do_left_click(x, y))
            => RevealedIn(revealed') \cap Wines = RevealedIn(revealed) \cap Wines]_vars

(* every cell without wine is revealed, by a crawl among others, on a      *)
(* board of two wines or more, and the game is still being played          *)
C18_Witness ==
  /\ state = STATE_PLAYING
  /\ pc = "idle"
  /\ last = <<"do_left_click", "hidden">>
  /\ Cardinality(Wines) >= 2
  /\ RevealedIn(revealed) = Board \ Wines
  /\ \E c \in Board : ValueAt(controller, c) = 0
(***************************************************************************)
(* C19: once set_state(STATE_LOSS) was the last state set, a left click or *)
(* a right click on any cell leaves STATE_LOSS the last state set and      *)
(* leaves `flagged` as it is; a step after which the last state set is no  *)
(* longer STATE_LOSS is a step of generate_game.                           *)
(***************************************************************************)
C19_LossAbsorbing ==
  /\ [][\A x \in 0..(cols - 1), y \in 0..(rows - 1) :
          (state = STATE_LOSS /\ (do_left_click(x, y) \/ do_right_click(x, y)))
            => (state' = STATE_LOSS /\ flagged' = flagged)]_vars
  /\ [][(state = STATE_LOSS /\ state' # STATE_LOSS) => generate_game]_vars

(* the game is lost with a flag on a wine and a flag on another cell, and  *)
(* a right click has come after the loss                                   *)
C19_Witness ==
  /\ state = STATE_LOSS
  /\ last = <<"do_right_click", "revealed">>
  /\ FlaggedCells \cap Wines # {}
  /\ FlaggedCells \ Wines # {}
====
